---- MODULE Spec2Model ----
(***************************************************************************)
(* Model of target.py (retarget_bvh): the registry of target-rig mapping   *)
(* tables (_targetInfo), the scene setting McpTargetRig, the annotations   *)
(* McpBone / McpParent that the identify routines write on the bones of    *)
(* the active armature, and the target file written by saveTargetFile.     *)
(*                                                                         *)
(* A mapping table (CTargetInfo) is a record [name, filepath, bones,       *)
(* parents]; bones is the ordered list of <<bone-name, role>> pairs and    *)
(* parents the override dict in insertion order, as <<bone-name, pname>>   *)
(* pairs. A JSON object is a record; a JSON object used as an ordered      *)
(* dict of strings is a sequence of <<key, value>> pairs with unique keys. *)
(***************************************************************************)
EXTENDS Integers, Sequences, FiniteSets, TLC

VARIABLES
    targetInfo,        \* _targetInfo: registry, name -> CTargetInfo
    McpTargetRig,      \* scn.McpTargetRig: the selected rig convention
    McpTargetRigProp,  \* bpy.types.Scene.McpTargetRig: [items, default]
    McpBone,           \* pb.McpBone of every pose bone of the armature
    McpParent,         \* pb.McpParent of every pose bone of the armature
    McpTPoseFile,      \* rig.McpTPoseFile
    parent,            \* pb.parent of every pose bone (NoBone for a root)
    rigKind,           \* the rig-kind predicates of utils that hold of the
                       \* armature
    amt,               \* what CArmature.findArmature does on the armature:
                       \* [found, raises]
    targetRigs,        \* os.listdir of the target_rigs directory
    saved,             \* the file last written by saveTargetFile
    lazyScans,         \* scans made by ensureTargetInited since the last
                       \* explicit loadTargets / initTargets
    last               \* what the last operation did and returned

vars == <<targetInfo, McpTargetRig, McpTargetRigProp, McpBone, McpParent,
          McpTPoseFile, parent, rigKind, amt, targetRigs, saved, lazyScans,
          last>>

(***************************************************************************)
(* Bounds and the finite universe of names.                                *)
(***************************************************************************)
\* How many of the rig-kind predicates may hold of one armature at once.
MaxMatches == 1

\* rig.pose.bones, in iteration order, and the bones as a set.
BoneOrder == <<"root", "hips", "leg">>
RigBones == {BoneOrder[i] : i \in DOMAIN BoneOrder}
\* pb.parent of a root bone (None).
NoBone == "<no bone>"
\* The roles CArmature.findArmature gives the bones it identifies, from the
\* root downwards; "" is no role.
RoleOrder == <<"hips", "thigh.L", "shin.L">>

\* The names of the rig-kind predicates of utils, in no particular order.
Predicates == {"isMhxRig", "isMakeHuman", "isRigify2", "isRigify",
               "isMhx7Rig", "isGenesis12", "isGenesis38"}

\* Every registry key of the model in the order of Python's list.sort().
NameOrder == <<"Automatic", "Genesis 1,2", "Genesis 3,8",
               "MH-alpha7", "MHX", "Makehuman", "Rigify", "Rigify 2">>

\* json's null as nameOrNone returns it.
None == "<None>"

(***************************************************************************)
(* The target_rigs directory. A directory entry is [stem, ext, isfile,     *)
(* struct]: os.path.splitext of its name, os.path.isfile, and the JSON     *)
(* object json.load reads from it. Every mapping file declares a name of   *)
(* its own, none declares "Automatic", and every role is a non-empty       *)
(* string ("one file per known rig convention").                           *)
(***************************************************************************)
FileMhx ==
    [stem |-> <<"m", "h", "x">>, ext |-> ".json", isfile |-> TRUE,
     struct |-> [name |-> "MHX",
                 bones |-> << <<"hips", "hips">>, <<"toe", "toe.L">>,
                              <<"leg", "thigh.L">> >>]]
FileRigify ==
    [stem |-> <<"r", "i", "g">>, ext |-> ".json", isfile |-> TRUE,
     struct |-> [name |-> "Rigify",
                 bones |-> << <<"root", "hips">>, <<"tail", "spine">>,
                              <<"leg", "thigh.L">> >>,
                 parents |-> << <<"hips", "leg">>, <<"leg", "hips">> >>]]
FileMakehuman ==
    [stem |-> <<"m", "h">>, ext |-> ".json", isfile |-> TRUE,
     struct |-> [name |-> "Makehuman",
                 bones |-> << <<"root", "hips">>, <<"leg", "thigh.L">> >>,
                 parents |-> << <<"leg", "hips">>, <<"tail", "hips">>,
                                <<"root", "leg">> >>]]
FileReadme ==
    [stem |-> <<"r", "m">>, ext |-> ".txt", isfile |-> TRUE,
     struct |-> [name |-> "Genesis 1,2", bones |-> << <<"root", "hips">> >>]]
DirBackup ==
    [stem |-> <<"b", "a", "k">>, ext |-> ".json", isfile |-> FALSE,
     struct |-> [name |-> "Genesis 3,8", bones |-> << <<"root", "hips">> >>]]

FullDirectory ==
    <<FileMhx, FileReadme, FileRigify, DirBackup, FileMakehuman>>

Directories == {FullDirectory, <<DirBackup, FileReadme>>}

(***************************************************************************)
(* class CTargetInfo                                                       *)
(***************************************************************************)
CTargetInfo(name) ==
    [name |-> name, filepath |-> <<"None">>, bones |-> <<>>, parents |-> <<>>]

\* utils.nameOrNone: the string "None" stands for no role.
nameOrNone(string) == IF string = "None" THEN None ELSE string

\* json.load succeeded and struct["name"], struct["bones"] exist.
readFileOk(struct) == {"name", "bones"} \subseteq DOMAIN struct

readFile(self, filepath, struct) ==
    [name |-> struct.name,
     filepath |-> filepath,
     bones |-> [i \in DOMAIN struct.bones |->
                   <<struct.bones[i][1], nameOrNone(struct.bones[i][2])>>],
     parents |-> IF "parents" \in DOMAIN struct THEN struct.parents
                 ELSE self.parents]

\* The while loop of addParents: the name of the first bone from par
\* upwards that bears a role, "" when the walk passes the root.
RECURSIVE walkUp(_, _, _)
walkUp(par, par_of, bone) ==
    IF par = NoBone THEN ""
    ELSE IF bone[par] # "" THEN par
    ELSE walkUp(par_of[par], par_of, bone)

\* The loop over self.parents.items(): rig.pose.bones[bname] raises
\* KeyError for a bone the armature lacks, and the loop ends there.
RECURSIVE applyParents(_, _, _)
applyParents(items, i, mparent) ==
    IF i > Len(items) THEN [McpParent |-> mparent, raised |-> FALSE]
    ELSE IF items[i][1] \notin RigBones
         THEN [McpParent |-> mparent, raised |-> TRUE]
    ELSE applyParents(items, i + 1,
                      [mparent EXCEPT ![items[i][1]] = items[i][2]])

\* A faulty inferParents: it looks at the direct parent only.
inferParentsDirect(par_of, bone, mparent) ==
    [pb \in RigBones |->
        IF bone[pb] # "" THEN
            (IF par_of[pb] # NoBone /\ bone[par_of[pb]] # ""
             THEN par_of[pb] ELSE "")
        ELSE mparent[pb]]

\* The first loop of addParents.
inferParents(par_of, bone, mparent) ==
    [pb \in RigBones |->
        IF bone[pb] # "" THEN walkUp(par_of[pb], par_of, bone)
        ELSE mparent[pb]]

\* A faulty addParents: it leaves the loop over self.parents out.
addParentsNoOverride(self, par_of, bone, mparent) ==
    [McpParent |-> inferParents(par_of, bone, mparent), raised |-> FALSE]

addParents(self, par_of, bone, mparent) ==
    applyParents(self.parents, 1, inferParents(par_of, bone, mparent))

\* addAutoBones: self.bones becomes the role-bearing bones in bone order.
RECURSIVE autoBones(_, _)
autoBones(i, bone) ==
    IF i > Len(BoneOrder) THEN <<>>
    ELSE (IF bone[BoneOrder[i]] # ""
          THEN << <<BoneOrder[i], bone[BoneOrder[i]]>> >> ELSE <<>>)
         \o autoBones(i + 1, bone)

addAutoBones(self, par_of, bone, mparent) ==
    LET self1 == [self EXCEPT !.bones = autoBones(1, bone)]
        res == addParents(self1, par_of, bone, mparent)
    IN [self |-> self1, McpBone |-> bone,
        McpParent |-> res.McpParent, raised |-> res.raised]

\* The second loop of addManualBones.
RECURSIVE setManual(_, _, _)
setManual(bones, i, bone) ==
    IF i > Len(bones) THEN bone
    ELSE setManual(bones, i + 1,
                   IF bones[i][1] \in RigBones
                   THEN [bone EXCEPT ![bones[i][1]] = bones[i][2]]
                   ELSE bone)

\* A faulty addManualBones: it does not clear McpBone first.
addManualBonesKeep(self, par_of, bone, mparent) ==
    LET bone1 == setManual(self.bones, 1, bone)
        res == addParents(self, par_of, bone1, mparent)
    IN [self |-> self, McpBone |-> bone1,
        McpParent |-> res.McpParent, raised |-> res.raised]

addManualBones(self, par_of, bone, mparent) ==
    LET bone1 == setManual(self.bones, 1, [pb \in RigBones |-> ""])
        res == addParents(self, par_of, bone1, mparent)
    IN [self |-> self, McpBone |-> bone1,
        McpParent |-> res.McpParent, raised |-> res.raised]

\* A faulty testRig: it drops from self.bones the bones it did not find.
testRigPrune(self) ==
    [self EXCEPT !.bones = SelectSeq(self.bones, LAMBDA p : p[1] \in RigBones)]

\* testRig prints a warning for the first table bone the armature lacks
\* and returns None; self is as it was.
testRig(self) == self

(***************************************************************************)
(* Global variables: the registry                                          *)
(***************************************************************************)
EmptyDict == [k \in {} |-> k]

\* _targetInfo[key] = info
setItem(dict, key, info) ==
    [k \in DOMAIN dict \cup {key} |-> IF k = key THEN info ELSE dict[k]]

isTargetInited(reg) == DOMAIN reg # {}

\* keys = list(_targetInfo.keys()); keys.sort()
sortedKeys(reg) == SelectSeq(NameOrder, LAMBDA key : key \in DOMAIN reg)

\* A faulty isMappingFile: it does not look at the extension.
scanDirAnyExt(entry) == entry.isfile

\* if ext == ".json" and os.path.isfile(filepath)
isMappingFile(entry) == entry.ext = ".json" /\ entry.isfile

\* The loop of initTargets over os.listdir(path). A file without "name" or
\* "bones" raises KeyError out of initTargets and ends the loop.
RECURSIVE scanDir(_, _, _)
scanDir(listing, i, reg) ==
    IF i > Len(listing) THEN [targetInfo |-> reg, raised |-> FALSE]
    ELSE IF ~isMappingFile(listing[i]) THEN scanDir(listing, i + 1, reg)
    ELSE IF ~readFileOk(listing[i].struct)
         THEN [targetInfo |-> reg, raised |-> TRUE]
    ELSE LET filepath == <<"target_rigs", listing[i].stem, listing[i].ext>>
             info == readFile(CTargetInfo("Manual"), filepath,
                              listing[i].struct)
         IN scanDir(listing, i + 1, setItem(reg, info.name, info))

\* initTargets on the state st = [targetInfo, prop, scanned, raised] of the
\* registry and of the property bpy.types.Scene.McpTargetRig.
initTargets(st, listing) ==
    LET scan == scanDir(listing, 1,
                        setItem(EmptyDict, "Automatic",
                                CTargetInfo("Automatic")))
        keys == sortedKeys(scan.targetInfo)
    IN IF scan.raised
       THEN [targetInfo |-> scan.targetInfo, prop |-> st.prop,
             scanned |-> st.scanned, raised |-> TRUE]
       ELSE [targetInfo |-> scan.targetInfo,
             prop |-> [items |-> [i \in DOMAIN keys |->
                                     <<keys[i], keys[i], keys[i]>>],
                       default |-> "Automatic"],
             scanned |-> st.scanned, raised |-> FALSE]

\* A faulty ensureTargetInited: it scans whatever the registry holds.
ensureAlways(st, listing) ==
    [initTargets(st, listing) EXCEPT !.scanned = st.scanned + 1]

ensureTargetInited(st, listing) ==
    IF ~isTargetInited(st.targetInfo)
    THEN [initTargets(st, listing) EXCEPT !.scanned = st.scanned + 1]
    ELSE st

\* loadTargets: _targetInfo = {}
loadTargets(reg) == EmptyDict

\* The keys the setting McpTargetRig offers.
enumKeys(prop) == {prop.items[i][1] : i \in DOMAIN prop.items}

(***************************************************************************)
(* guessTargetArmatureFromList. rig is the set of the rig-kind predicates  *)
(* of utils that hold of the armature.                                     *)
(***************************************************************************)
\* A faulty guessTargetArmatureFromList: isRigify is asked before isRigify2.
guessRigifyFirst(st, listing, rig) ==
    [st |-> ensureTargetInited(st, listing),
     name |-> IF "isMhxRig" \in rig THEN "MHX"
              ELSE IF "isMakeHuman" \in rig THEN "Makehuman"
              ELSE IF "isRigify" \in rig THEN "Rigify"
              ELSE IF "isRigify2" \in rig THEN "Rigify 2"
              ELSE IF "isMhx7Rig" \in rig THEN "MH-alpha7"
              ELSE IF "isGenesis12" \in rig THEN "Genesis 1,2"
              ELSE IF "isGenesis38" \in rig THEN "Genesis 3,8"
              ELSE "Automatic"]

guessTargetArmatureFromList(st, listing, rig) ==
    [st |-> ensureTargetInited(st, listing),
     name |-> IF "isMhxRig" \in rig THEN "MHX"
              ELSE IF "isMakeHuman" \in rig THEN "Makehuman"
              ELSE IF "isRigify2" \in rig THEN "Rigify 2"
              ELSE IF "isRigify" \in rig THEN "Rigify"
              ELSE IF "isMhx7Rig" \in rig THEN "MH-alpha7"
              ELSE IF "isGenesis12" \in rig THEN "Genesis 1,2"
              ELSE IF "isGenesis38" \in rig THEN "Genesis 3,8"
              ELSE "Automatic"]

(***************************************************************************)
(* The operations. last records what the latest operation did:            *)
(* op, result ("ok", or "error" when it raised), info (the table it        *)
(* returned), before (scn.McpTargetRig on entry of getTargetArmature),     *)
(* guess (what guessTargetArmatureFromList returned), lookup (whether      *)
(* _targetInfo[name] was evaluated) with lookupKeys (the registry's keys   *)
(* at that moment), branch ("auto" when addAutoBones ran, "manual" when    *)
(* addManualBones ran), addParents ("none", "returned" or "raised"), table *)
(* (the table addParents worked from) and scanned (whether                 *)
(* ensureTargetInited scanned the directory).                              *)
(***************************************************************************)
NoInfo == CTargetInfo("<no info>")

Last(op) ==
    [op |-> op, result |-> "ok", info |-> NoInfo, before |-> "", guess |-> "",
     lookup |-> FALSE, lookupKeys |-> {}, branch |-> "none",
     addParents |-> "none", table |-> NoInfo, scanned |-> FALSE]

Cur ==
    [targetInfo |-> targetInfo, prop |-> McpTargetRigProp, scanned |-> 0,
     raised |-> FALSE]

\* The sets of predicates that may hold of an armature.
Rigs == {rig \in SUBSET Predicates : Cardinality(rig) <= MaxMatches}

\* What CArmature.findArmature may leave in McpBone: it identifies some of
\* the bones and gives the k-th of them, in bone order, the k-th role.
foundRoles(identified) ==
    [pb \in RigBones |->
        IF pb \in identified
        THEN RoleOrder[Cardinality({i \in DOMAIN BoneOrder :
                 /\ BoneOrder[i] \in identified
                 /\ \E j \in DOMAIN BoneOrder : j >= i /\ BoneOrder[j] = pb})]
        ELSE ""]
Found == {foundRoles(identified) : identified \in SUBSET RigBones}

\* The parent pointers of an armature: every walk upwards ends at a root.
RECURSIVE reachesRoot(_, _, _)
reachesRoot(par_of, pb, n) ==
    IF pb = NoBone THEN TRUE
    ELSE IF n = 0 THEN FALSE
    ELSE reachesRoot(par_of, par_of[pb], n - 1)

\* pose.bones lists a bone after its parent.
indexOf(pb) == CHOOSE i \in DOMAIN BoneOrder : BoneOrder[i] = pb

Armatures ==
    {par_of \in [RigBones -> RigBones \cup {NoBone}] :
        \A pb \in RigBones :
            /\ reachesRoot(par_of, pb, Cardinality(RigBones))
            /\ par_of[pb] # NoBone => indexOf(par_of[pb]) < indexOf(pb)}

\* The state after initialize(): an empty registry, the setting offering
\* "Automatic" alone, and an armature without annotations. The armature
\* (its parent pointers, the predicates that hold of it, what findArmature
\* finds on it) and the directory are fixed for a behaviour. findArmature
\* runs only when no predicate holds, so amt varies only then.
InitFor(armatures, rigs, directories) ==
    /\ targetInfo = EmptyDict
    /\ McpTargetRig = "Automatic"
    /\ McpTargetRigProp =
           [items |-> << <<"Automatic", "Automatic", "Automatic">> >>,
            default |-> "Automatic"]
    /\ McpBone = [pb \in RigBones |-> ""]
    /\ McpParent = [pb \in RigBones |-> ""]
    /\ McpTPoseFile = "tpose.json"
    /\ parent \in armatures
    /\ rigKind \in rigs
    /\ amt \in [found : Found, raises : BOOLEAN]
    /\ rigKind # {} => amt = [found |-> foundRoles({}), raises |-> FALSE]
    /\ targetRigs \in directories
    /\ saved = <<>>
    /\ lazyScans = 0
    /\ last = Last("initialize")

Init == InitFor(Armatures, Rigs, Directories)

\* A faulty assignTargetRig: the setting is left as it was.
keepTargetRig(prop, scnRig, name) == scnRig

\* scn.McpTargetRig = name: the setting takes a name it offers, and the
\* assignment of any other raises TypeError and leaves it as it was.
assignTargetRig(prop, scnRig, name) ==
    IF name \in enumKeys(prop) THEN name ELSE scnRig

\* The branch "name == Automatic" of getTargetArmature. found is what
\* findArmature leaves in McpBone; amtRaises: it raises MocapError.
autoTarget(st, scnRig, guess, found, amtRaises) ==
    LET res == addAutoBones(CTargetInfo("Automatic"), parent, found, McpParent)
        base == [Last("getTargetArmature") EXCEPT
                    !.before = scnRig, !.guess = guess,
                    !.scanned = st.scanned > 0]
    IN /\ targetInfo' = IF amtRaises THEN st.targetInfo
                        ELSE setItem(st.targetInfo, "Automatic", res.self)
       /\ McpTargetRigProp' = st.prop
       /\ McpTargetRig' = IF amtRaises THEN scnRig
                          ELSE assignTargetRig(st.prop, scnRig, "Automatic")
       /\ McpBone' = found
       /\ McpParent' = IF amtRaises THEN McpParent ELSE res.McpParent
       /\ McpTPoseFile' = IF amtRaises \/ res.raised THEN McpTPoseFile ELSE ""
       /\ lazyScans' = lazyScans + st.scanned
       /\ last' = IF amtRaises THEN [base EXCEPT !.result = "error"]
                  ELSE IF res.raised
                  THEN [base EXCEPT !.result = "error", !.table = res.self,
                                    !.branch = "auto",
                                    !.addParents = "raised"]
                  ELSE [base EXCEPT !.info = res.self, !.table = res.self,
                                    !.branch = "auto",
                                    !.addParents = "returned"]
       /\ UNCHANGED <<parent, rigKind, amt, targetRigs, saved>>

\* The branch "else" of getTargetArmature. Assigning the setting a name it
\* does not offer raises TypeError, _targetInfo[name] of a missing name
\* KeyError.
manualTarget(st, scnRig, guess, name) ==
    LET known == name \in enumKeys(st.prop) /\ name \in DOMAIN st.targetInfo
        res == addManualBones(testRig(st.targetInfo[name]), parent, McpBone,
                              McpParent)
        base == [Last("getTargetArmature") EXCEPT
                    !.before = scnRig, !.guess = guess,
                    !.scanned = st.scanned > 0,
                    !.lookup = name \in enumKeys(st.prop),
                    !.lookupKeys = IF name \in enumKeys(st.prop)
                                   THEN DOMAIN st.targetInfo ELSE {}]
    IN /\ targetInfo' = IF known THEN setItem(st.targetInfo, name, res.self)
                        ELSE st.targetInfo
       /\ McpTargetRigProp' = st.prop
       /\ McpTargetRig' = assignTargetRig(st.prop, scnRig, name)
       /\ McpBone' = IF known THEN res.McpBone ELSE McpBone
       /\ McpParent' = IF known THEN res.McpParent ELSE McpParent
       /\ lazyScans' = lazyScans + st.scanned
       /\ last' = IF ~known THEN [base EXCEPT !.result = "error"]
                  ELSE IF res.raised
                  THEN [base EXCEPT !.result = "error", !.table = res.self,
                                    !.branch = "manual",
                                    !.addParents = "raised"]
                  ELSE [base EXCEPT !.info = res.self, !.table = res.self,
                                    !.branch = "manual",
                                    !.addParents = "returned"]
       /\ UNCHANGED <<McpTPoseFile, parent, rigKind, amt, targetRigs, saved>>

\* getTargetArmature(rig, context) with scn.McpTargetRig = scnRig on entry.
getTargetArmature(scnRig) ==
    LET st0 == ensureTargetInited(Cur, targetRigs)
    IN IF st0.raised
       THEN /\ targetInfo' = st0.targetInfo
            /\ McpTargetRig' = scnRig
            /\ lazyScans' = lazyScans + st0.scanned
            /\ last' = [Last("getTargetArmature") EXCEPT
                           !.result = "error", !.before = scnRig,
                           !.scanned = st0.scanned > 0]
            /\ UNCHANGED <<McpTargetRigProp, McpBone, McpParent, McpTPoseFile,
                           parent, rigKind, amt, targetRigs, saved>>
       ELSE IF scnRig = "Automatic"
       THEN LET g == guessTargetArmatureFromList(st0, targetRigs, rigKind)
            IN IF g.name = "Automatic"
               THEN autoTarget(g.st, scnRig, g.name, amt.found, amt.raises)
               ELSE manualTarget(g.st, scnRig, g.name, g.name)
       ELSE manualTarget(st0, scnRig, "", scnRig)

\* Another module calls getTargetArmature with the setting as it is.
GetTargetArmature == getTargetArmature(McpTargetRig)

\* MCP_OT_GetTargetRig.execute: scn.McpTargetRig = "Automatic" first.
MCP_OT_GetTargetRig == getTargetArmature("Automatic")

\* Another module calls guessTargetArmatureFromList(rig, scn).
GuessTargetArmatureFromList ==
    LET g == guessTargetArmatureFromList(Cur, targetRigs, rigKind)
    IN /\ targetInfo' = g.st.targetInfo
       /\ McpTargetRigProp' = g.st.prop
       /\ lazyScans' = lazyScans + g.st.scanned
       /\ last' = [Last("guessTargetArmatureFromList") EXCEPT
                      !.result = IF g.st.raised THEN "error" ELSE "ok",
                      !.guess = IF g.st.raised THEN "" ELSE g.name,
                      !.scanned = g.st.scanned > 0]
       /\ UNCHANGED <<McpTargetRig, McpBone, McpParent, McpTPoseFile,
                          parent, rigKind, amt, targetRigs, saved>>

\* loadTargets()
LoadTargets ==
    /\ targetInfo' = loadTargets(targetInfo)
    /\ lazyScans' = 0
    /\ last' = Last("loadTargets")
    /\ UNCHANGED <<McpTargetRig, McpTargetRigProp, McpBone, McpParent,
                   McpTPoseFile, parent, rigKind, amt, targetRigs, saved>>

\* MCP_OT_InitTargets.execute; tposeRaises: initTPoses or initTargetTPose
\* raises MocapError and initTargets is not reached.
MCP_OT_InitTargets ==
    \E tposeRaises \in BOOLEAN :
        LET st == initTargets(Cur, targetRigs)
        IN IF tposeRaises
           THEN /\ last' = [Last("initTargets") EXCEPT !.result = "error"]
                /\ UNCHANGED <<targetInfo, McpTargetRigProp, lazyScans>>
                /\ UNCHANGED <<McpTargetRig, McpBone, McpParent, McpTPoseFile,
                               parent, rigKind, amt, targetRigs, saved>>
           ELSE /\ targetInfo' = st.targetInfo
                /\ McpTargetRigProp' = st.prop
                /\ lazyScans' = 0
                /\ last' = [Last("initTargets") EXCEPT
                               !.result = IF st.raised THEN "error" ELSE "ok"]
                /\ UNCHANGED <<McpTargetRig, McpBone, McpParent, McpTPoseFile,
                               parent, rigKind, amt, targetRigs, saved>>

\* The user selects one of the items the setting offers.
SetTargetRig ==
    \E key \in enumKeys(McpTargetRigProp) :
        /\ key # McpTargetRig
        /\ McpTargetRig' = key
        /\ last' = Last("setTargetRig")
        /\ UNCHANGED <<targetInfo, McpTargetRigProp, McpBone, McpParent,
                       McpTPoseFile, parent, rigKind, amt, targetRigs, saved,
                       lazyScans>>

(***************************************************************************)
(* saveTargetFile. A path is <<directory, stem, ext>>, the stem a sequence *)
(* of characters.                                                          *)
(***************************************************************************)
LowerCase == <<"m", "y", "r", "i", "g", "h", "x">>
UpperCase == <<"M", "Y", "R", "I", "G", "H", "X">>

upper(c) ==
    IF \E i \in DOMAIN LowerCase : LowerCase[i] = c
    THEN UpperCase[CHOOSE i \in DOMAIN LowerCase : LowerCase[i] = c] ELSE c
lower(c) ==
    IF \E i \in DOMAIN UpperCase : UpperCase[i] = c
    THEN LowerCase[CHOOSE i \in DOMAIN UpperCase : UpperCase[i] = c] ELSE c

\* str.capitalize() and str.replace(old, new) on single characters.
capitalize(str) ==
    [i \in DOMAIN str |-> IF i = 1 THEN upper(str[i]) ELSE lower(str[i])]
replace(str, old, new) ==
    [i \in DOMAIN str |-> IF str[i] = old THEN new ELSE str[i]]

\* The paths the file selector may hand to saveTargetFile.
SavePaths == { <<"home", <<"m", "y", " ", "R", "i", "g">>, ".trg">>,
               <<"target_rigs", <<"M", "H", "X">>, ".json">> }

\* The file saveTargetFile writes: [path, struct, tpose], tpose telling
\* whether saveTPose wrote the T-pose file beside it.
saveTargetFile(filepath, bone, McpSaveTargetTPose) ==
    LET name == replace(capitalize(filepath[2]), " ", "_")
        roled == SelectSeq(BoneOrder, LAMBDA pb : bone[pb] # "")
        arm == [i \in DOMAIN roled |-> <<roled[i], bone[roled[i]]>>]
    IN [path |-> <<filepath[1], filepath[2], ".json">>,
        struct |-> [name |-> name, url |-> "", armature |-> arm],
        tpose |-> McpSaveTargetTPose]

\* MCP_OT_SaveTargetFile.execute. saved keeps the file and, beside it, the
\* McpBone of the armature it was written from.
MCP_OT_SaveTargetFile ==
    \E filepath \in SavePaths, McpSaveTargetTPose \in BOOLEAN :
        /\ saved' = << [file |-> saveTargetFile(filepath, McpBone,
                                                McpSaveTargetTPose),
                        McpBone |-> McpBone] >>
        /\ last' = Last("saveTargetFile")
        /\ UNCHANGED <<targetInfo, McpTargetRig, McpTargetRigProp, McpBone,
                       McpParent, McpTPoseFile, parent, rigKind, amt,
                       targetRigs, lazyScans>>

\* CTargetInfo("Manual").readFile(filepath) of the file saveTargetFile
\* wrote: struct["bones"] of a file without "bones" raises KeyError.
ReadSavedFile ==
    /\ saved # <<>>
    /\ last' = IF readFileOk(saved[1].file.struct)
               THEN [Last("readFile") EXCEPT
                        !.info = readFile(CTargetInfo("Manual"),
                                          saved[1].file.path,
                                          saved[1].file.struct)]
               ELSE [Last("readFile") EXCEPT !.result = "error"]
    /\ UNCHANGED <<targetInfo, McpTargetRig, McpTargetRigProp, McpBone,
                   McpParent, McpTPoseFile, parent, rigKind, amt,
                   targetRigs, saved, lazyScans>>

Next ==
    \/ GetTargetArmature
    \/ MCP_OT_GetTargetRig
    \/ GuessTargetArmatureFromList
    \/ LoadTargets
    \/ MCP_OT_InitTargets
    \/ SetTargetRig

Spec == Init /\ [][Next]_vars

\* Identify, save and load back, on every armature.
NextSave ==
    \/ MCP_OT_GetTargetRig
    \/ MCP_OT_SaveTargetFile
    \/ ReadSavedFile

SpecSave == Init /\ [][NextSave]_vars

\* Every combination of the rig-kind predicates, on one armature.
ChainArmature ==
    [pb \in RigBones |->
        IF indexOf(pb) = 1 THEN NoBone ELSE BoneOrder[indexOf(pb) - 1]]
InitGuess == InitFor({ChainArmature}, SUBSET Predicates, {FullDirectory})

SpecGuess == InitGuess /\ [][Next]_vars

(***************************************************************************)
(* The properties.                                                         *)
(***************************************************************************)
\* The strict ancestors of a bone, by its parent pointers.
RECURSIVE strictAncestors(_)
strictAncestors(pb) ==
    IF parent[pb] = NoBone THEN {}
    ELSE {parent[pb]} \cup strictAncestors(parent[pb])

roledAncestors(pb) == {q \in strictAncestors(pb) : McpBone[q] # ""}

\* The bone names a table's override map lists.
overridden(table) == {table.parents[i][1] : i \in DOMAIN table.parents}

\* The bone names a table's (bone-name, role) list names.
named(table) == {table.bones[i][1] : i \in DOMAIN table.bones}

\* q is the nearest of pb's strict ancestors that bear a role.
isNearestRoled(q, pb) ==
    /\ q \in roledAncestors(pb)
    /\ \A r \in roledAncestors(pb) \ {q} : r \in strictAncestors(q)

addParentsRan ==
    last.op = "getTargetArmature" /\ last.addParents # "none"

\* C1 (as claimed): loading the file saveTargetFile wrote succeeds and
\* yields exactly the (bone-name, role) pairs of the role-bearing bones of
\* the armature the file was saved from.
C1_SaveLoadRoundTrip ==
    (last.op = "readFile" /\ \E pb \in RigBones : saved[1].McpBone[pb] # "")
    =>
        /\ last.result = "ok"
        /\ {last.info.bones[i] : i \in DOMAIN last.info.bones}
             = {<<pb, saved[1].McpBone[pb]>> :
                   pb \in {q \in RigBones : saved[1].McpBone[q] # ""}}

\* C2 (as claimed): after addParents every role-bearing bone the override
\* map does not list has as McpParent the ROLE of its nearest role-bearing
\* strict ancestor, and "" when it has none.
C2_ParentIsAncestorRole ==
    addParentsRan =>
        \A pb \in RigBones \ overridden(last.table) :
            McpBone[pb] # "" =>
                IF roledAncestors(pb) = {} THEN McpParent[pb] = ""
                ELSE \E q \in RigBones :
                        isNearestRoled(q, pb) /\ McpParent[pb] = McpBone[q]

\* C2 (amended): after addParents every role-bearing bone the override map
\* does not list has as McpParent the bone NAME of its nearest role-bearing
\* strict ancestor, skipping role-less bones, and "" when it has none.
C2_ParentIsAncestorName ==
    addParentsRan =>
        \A pb \in RigBones \ overridden(last.table) :
            McpBone[pb] # "" =>
                IF roledAncestors(pb) = {} THEN McpParent[pb] = ""
                ELSE isNearestRoled(McpParent[pb], pb)

\* C2 witness: a three-level chain whose root and leaf bear roles and
\* whose middle bone bears none; the leaf's McpParent is the root.
C2_Witness ==
    /\ addParentsRan
    /\ parent = ChainArmature
    /\ McpBone["root"] # "" /\ McpBone["hips"] = "" /\ McpBone["leg"] # ""
    /\ "leg" \notin overridden(last.table)
    /\ McpParent["leg"] = "root"

\* C3: when addParents has returned, every bone the override map lists has
\* the override value as McpParent, whatever the walk inferred and whether
\* or not the bone bears a role.
C3_OverridePrecedence ==
    (addParentsRan /\ last.addParents = "returned") =>
        \A i \in DOMAIN last.table.parents :
            /\ last.table.parents[i][1] \in RigBones
            /\ McpParent[last.table.parents[i][1]] = last.table.parents[i][2]

\* C3 witness: the Rigify table on an armature where the walk infers "root"
\* for leg; the override gives leg "hips", and gives the role-less bone
\* hips "leg".
C3_Witness ==
    /\ addParentsRan /\ last.addParents = "returned"
    /\ last.table.name = "Rigify"
    /\ McpBone["hips"] = "" /\ McpParent["hips"] = "leg"
    /\ McpBone["leg"] # "" /\ McpParent["leg"] = "hips"
    /\ walkUp(parent["leg"], parent, McpBone) = "root"

\* The rig kinds in the priority order of the claim, each with its
\* predicate.
Priority ==
    << <<"isMhxRig", "MHX">>, <<"isMakeHuman", "Makehuman">>,
       <<"isRigify2", "Rigify 2">>, <<"isRigify", "Rigify">>,
       <<"isMhx7Rig", "MH-alpha7">>, <<"isGenesis12", "Genesis 1,2">>,
       <<"isGenesis38", "Genesis 3,8">> >>

guessed ==
    \/ last.op = "guessTargetArmatureFromList" /\ last.result = "ok"
    \/ last.op = "getTargetArmature" /\ last.before = "Automatic"

\* C4: guessTargetArmatureFromList returns the rig kind of the first
\* predicate, in the priority order, that holds of the armature, and
\* "Automatic" exactly when none holds.
C4_FirstMatchWins ==
    guessed =>
        /\ \A i \in DOMAIN Priority :
              last.guess = Priority[i][2] <=>
                  /\ Priority[i][1] \in rigKind
                  /\ \A j \in 1..(i - 1) : Priority[j][1] \notin rigKind
        /\ last.guess = "Automatic" <=> rigKind = {}

\* C4 witness: three predicates hold at once and the earliest wins.
C4_Witness ==
    /\ last.op = "guessTargetArmatureFromList"
    /\ rigKind = {"isRigify2", "isRigify", "isGenesis38"}
    /\ last.guess = "Rigify 2"

manualRan == last.op = "getTargetArmature" /\ last.branch = "manual"

\* The McpParent addParents is to leave on pb: the override when the
\* table's override map lists pb, else the nearest role-bearing ancestor.
resolvedParent(table, pb) ==
    /\ \A i \in DOMAIN table.parents :
          table.parents[i][1] = pb => McpParent[pb] = table.parents[i][2]
    /\ pb \notin overridden(table) =>
          IF roledAncestors(pb) = {} THEN McpParent[pb] = ""
          ELSE isNearestRoled(McpParent[pb], pb)

\* C5 (as claimed): getTargetArmature with a known convention other than
\* "Automatic" raises no error and returns the table even when the table,
\* or its override map, names bones the armature lacks, and every table
\* bone the armature has carries its table role and a resolved McpParent.
C5_PartialMismatchNotFatal ==
    manualRan =>
        /\ last.result = "ok"
        /\ last.info = last.table
        /\ \A i \in DOMAIN last.table.bones :
              last.table.bones[i][1] \in RigBones =>
                  /\ McpBone[last.table.bones[i][1]] = last.table.bones[i][2]
                  /\ resolvedParent(last.table, last.table.bones[i][1])

\* C6: a step of guessTargetArmatureFromList or getTargetArmature leaves
\* every registry entry that was read from a file in the registry, with its
\* name, its (bone-name, role) list and its override map as they were.
C6_LoadedTablesImmutable ==
    [][last'.op \in {"guessTargetArmatureFromList", "getTargetArmature"} =>
          \A key \in DOMAIN targetInfo :
              targetInfo[key].filepath # <<"None">> =>
                  /\ key \in DOMAIN targetInfo'
                  /\ targetInfo'[key] = targetInfo[key]]_vars

\* C6 witness: addManualBones has worked from a file-loaded table that
\* names a bone the armature lacks, after an automatic identification has
\* replaced the "Automatic" entry.
C6_Witness ==
    /\ manualRan /\ last.result = "ok"
    /\ last.table.filepath # <<"None">>
    /\ named(last.table) \ RigBones # {}
    /\ targetInfo["Automatic"].bones # <<>>
    /\ targetInfo[McpTargetRig] = last.table

\* The directory entries initTargets reads.
mappingFiles ==
    {i \in DOMAIN targetRigs :
        targetRigs[i].ext = ".json" /\ targetRigs[i].isfile}

freshlyScanned ==
    \/ last.op = "initTargets" /\ last.result = "ok"
    \/ last.op = "guessTargetArmatureFromList" /\ last.scanned

C8_LazyInit ==
    [][/\ last'.op = "loadTargets" => ~isTargetInited(targetInfo')
       /\ last'.scanned => ~isTargetInited(targetInfo)
       /\ last'.op \in {"guessTargetArmatureFromList", "getTargetArmature"}
             => (last'.scanned <=> ~isTargetInited(targetInfo))
       /\ lazyScans' <= 1
       /\ last'.lookup => "Automatic" \in last'.lookupKeys]_vars

\* C8 witness: a getTargetArmature that looks a name up without scanning,
\* the one lazy scan since loadTargets having been made before.
C8_Witness ==
    /\ last.op = "getTargetArmature" /\ last.lookup /\ ~last.scanned
    /\ lazyScans = 1

\* C9: after addManualBones a bone bears a role exactly when the table's
\* list names it, and then the table's role for it; no bone is added.
C9_ManualOverwritesRoles ==
    manualRan =>
        /\ DOMAIN McpBone = RigBones
        /\ \A pb \in RigBones : McpBone[pb] # "" <=> pb \in named(last.table)
        /\ \A i \in DOMAIN last.table.bones :
              last.table.bones[i][1] \in RigBones =>
                  McpBone[last.table.bones[i][1]] = last.table.bones[i][2]

\* C9 witness: the MHX table, which names hips, leg and a bone the
\* armature lacks, on an armature whose root an earlier automatic
\* identification had given a role.
C9_Witness ==
    /\ manualRan
    /\ last.table.name = "MHX"
    /\ \E i \in DOMAIN targetInfo["Automatic"].bones :
          targetInfo["Automatic"].bones[i][1] = "root"
    /\ McpBone["root"] = ""
    /\ named(last.table) \ RigBones # {}

\* C10: every registry entry is stored under its own name, and the table
\* getTargetArmature returns is the registry entry of the setting's value,
\* which is "Automatic" if the setting was "Automatic" and no predicate
\* held, the guessed name if one held, and the name selected before
\* otherwise.
C10_RegistryMatchesSetting ==
    /\ \A key \in DOMAIN targetInfo : targetInfo[key].name = key
    /\ (last.op = "getTargetArmature" /\ last.result = "ok") =>
          /\ McpTargetRig \in DOMAIN targetInfo
          /\ last.info = targetInfo[McpTargetRig]
          /\ last.before = "Automatic" /\ rigKind = {}
                => McpTargetRig = "Automatic"
          /\ last.before = "Automatic" /\ rigKind # {}
                => McpTargetRig = last.guess /\ McpTargetRig # "Automatic"
          /\ last.before # "Automatic" => McpTargetRig = last.before

\* C10 witness: the setting was "Automatic", a predicate held, and
\* getTargetArmature returned the table of the guessed name.
C10_Witness ==
    /\ last.op = "getTargetArmature" /\ last.result = "ok"
    /\ last.before = "Automatic" /\ last.guess = "Rigify"
    /\ McpTargetRig = "Rigify"
    /\ last.info.name = "Rigify"

====
